---- MODULE Spec2Model ----
(***************************************************************************)
(* Model of the two MCP servers of the repository (business-data server    *)
(* in lambda/query, weather server in lambda/weather) and of the free-text *)
(* query analysis behind the narrated business-query tool.                 *)
(*                                                                         *)
(* Python values are tagged records; a Python string is a sequence of      *)
(* pieces (single characters for free text, literals for fixed messages).  *)
(* A call outcome is a record [exc, val, msg]: a return value or a raised  *)
(* exception with its message.                                             *)
(***************************************************************************)
EXTENDS Integers, Sequences, FiniteSets, TLC

VARIABLES phase, server, event, env, out, user_prompt, results, session

vars == <<phase, server, event, env, out, user_prompt, results, session>>

(***************************************************************************)
(* Bounds                                                                  *)
(***************************************************************************)
\* number of fragments a free text is assembled from
MaxFrags == 3
\* number of requests one server process handles
MaxRequests == 3

(***************************************************************************)
(* Python values                                                           *)
(***************************************************************************)
Absent == [kind |-> "absent"]
None == [kind |-> "none"]
Num(n) == [kind |-> "num", n |-> n]
Str(s) == [kind |-> "str", s |-> s]
List(xs) == [kind |-> "list", xs |-> xs]

AllKeys == {"jsonrpc", "method", "params", "id", "prompt", "body",
            "name", "arguments", "query", "start_date", "category",
            "min_amount", "location"}

\* a dict: every key of the model's key universe is bound or Absent
Dict(rec) == [kind |-> "dict",
              d |-> [k \in AllKeys |-> IF k \in DOMAIN rec THEN rec[k] ELSE Absent]]
EmptyDict == [kind |-> "dict", d |-> [k \in AllKeys |-> Absent]]

Ok(v) == [exc |-> FALSE, val |-> v, msg |-> <<>>]
Raise(m) == [exc |-> TRUE, val |-> None, msg |-> m]

\* truth value of a Python object
Truthy(v) ==
  CASE v.kind = "none" -> FALSE
    [] v.kind = "absent" -> FALSE
    [] v.kind = "num" -> v.n # 0
    [] v.kind = "str" -> v.s # <<>>
    [] v.kind = "list" -> v.xs # <<>>
    [] OTHER -> \E k \in AllKeys : v.d[k].kind # "absent"

\* d.get(k) or default: a falsy value is taken for a missing one
Get_FalsyDefault(v, k, default) ==
  IF v.kind = "dict"
    THEN Ok(IF Truthy(v.d[k]) THEN v.d[k] ELSE default)
    ELSE Raise(<<"object has no attribute 'get'">>)

\* d.get(k, default); anything but a dict has no attribute 'get'
Get(v, k, default) ==
  IF v.kind = "dict"
    THEN Ok(IF v.d[k].kind = "absent" THEN default ELSE v.d[k])
    ELSE Raise(<<"object has no attribute 'get'">>)

\* str(v) as used by the f-strings of the handlers
PyStr(v) ==
  CASE v.kind = "str" -> v.s
    [] v.kind = "none" -> <<"None">>
    [] v.kind = "num" -> <<ToString(v.n)>>
    [] v.kind = "list" -> <<"[...]">>
    [] OTHER -> <<"{...}">>

(***************************************************************************)
(* Text: lowercasing and substring search                                  *)
(***************************************************************************)
LowerTable ==
  ("A" :> "a") @@ ("B" :> "b") @@ ("C" :> "c") @@ ("D" :> "d") @@ ("E" :> "e") @@
  ("F" :> "f") @@ ("G" :> "g") @@ ("H" :> "h") @@ ("I" :> "i") @@ ("J" :> "j") @@
  ("K" :> "k") @@ ("L" :> "l") @@ ("M" :> "m") @@ ("N" :> "n") @@ ("O" :> "o") @@
  ("P" :> "p") @@ ("Q" :> "q") @@ ("R" :> "r") @@ ("S" :> "s") @@ ("T" :> "t") @@
  ("U" :> "u") @@ ("V" :> "v") @@ ("W" :> "w") @@ ("X" :> "x") @@ ("Y" :> "y") @@
  ("Z" :> "z")

LowerChar(c) == IF c \in DOMAIN LowerTable THEN LowerTable[c] ELSE c

\* the prompt used as it is, without case folding
Lower_NoFold(s) == s

\* str.lower()
Lower(s) == [i \in 1..Len(s) |-> LowerChar(s[i])]

\* `word in s` for strings
Contains(word, s) ==
  \E i \in 1..(Len(s) - Len(word) + 1) : SubSeq(s, i, i + Len(word) - 1) = word

RevenueWords ==
  { <<"r", "e", "v", "e", "n", "u", "e">>,
    <<"s", "a", "l", "e", "s">>,
    <<"p", "e", "r", "f", "o", "r", "m", "a", "n", "c", "e">>,
    <<"t", "r", "e", "n", "d", "s">>,
    <<"s", "u", "m", "m", "a", "r", "y">>,
    <<"b", "u", "s", "i", "n", "e", "s", "s">> }

ProductWords ==
  { <<"p", "r", "o", "d", "u", "c", "t">>,
    <<"b", "e", "s", "t", "s", "e", "l", "l", "e", "r">>,
    <<"c", "a", "t", "e", "g", "o", "r", "y">>,
    <<"i", "n", "v", "e", "n", "t", "o", "r", "y">>,
    <<"i", "t", "e", "m", "s">> }

CustomerWords ==
  { <<"c", "u", "s", "t", "o", "m", "e", "r">>,
    <<"o", "r", "d", "e", "r">>,
    <<"h", "i", "g", "h", " ", "v", "a", "l", "u", "e">>,
    <<"v", "i", "p">>,
    <<"s", "p", "e", "n", "d", "i", "n", "g">> }

\* any(word in prompt_lower for word in [...])
AnyWord(words, s) == \E w \in words : Contains(w, s)

DefaultPrompt ==
  <<"S", "h", "o", "w", " ", "m", "e", " ", "a", " ", "b", "u", "s", "i", "n",
    "e", "s", "s", " ", "p", "e", "r", "f", "o", "r", "m", "a", "n", "c", "e",
    " ", "s", "u", "m", "m", "a", "r", "y">>

(***************************************************************************)
(* Data provider: one connection per call                                  *)
(***************************************************************************)
\* The environment decides which provider call of a request fails:
\* env.failAt is the position of the failing call (0: none) and
\* env.failKind whether the connection or the query fails.
ProviderOutcome(idx, e) ==
  IF e.failAt = idx THEN e.failKind ELSE "ok"

\* the finally block is skipped when the query fails
get_db_connection_LeakOnQueryFailure(outcome) ==
  CASE outcome = "connect" ->
         [exc |-> TRUE,
          msg |-> <<"Database connection failed: ", "connect error">>,
          conn |-> <<"connect_failed">>]
    [] outcome = "query" ->
         [exc |-> TRUE,
          msg |-> <<"Database connection failed: ", "query error">>,
          conn |-> <<"open", "execute_failed">>]
    [] OTHER ->
         [exc |-> FALSE, msg |-> <<>>, conn |-> <<"open", "execute", "close">>]

\* The context manager around one provider call: the events on the
\* connection and the exception that leaves the `with` block, if any.
get_db_connection(outcome) ==
  CASE outcome = "connect" ->
         [exc |-> TRUE,
          msg |-> <<"Database connection failed: ", "connect error">>,
          conn |-> <<"connect_failed">>]
    [] outcome = "query" ->
         [exc |-> TRUE,
          msg |-> <<"Database connection failed: ", "query error">>,
          conn |-> <<"open", "execute_failed", "close">>]
    [] OTHER ->
         [exc |-> FALSE, msg |-> <<>>, conn |-> <<"open", "execute", "close">>]

\* what a provider entry point returns: the rows of its query
Rows(fn, days, filter) ==
  [kind |-> "rows", rows |-> fn, lookback |-> days, filter |-> filter]

RevenueLookback == 30
ProductLookback == 90
CustomerLookback == 60

\* start_date given by the caller, else the default lookback window
StartDate(start_date, days) ==
  IF Truthy(start_date) THEN start_date ELSE Num(days)

ProviderCall(fn, data, outcome) ==
  LET c == get_db_connection(outcome)
  IN [exc |-> c.exc, val |-> IF c.exc THEN None ELSE data, msg |-> c.msg,
      call |-> [fn |-> fn, conn |-> c.conn]]

execute_revenue_query(start_date, outcome) ==
  ProviderCall("revenue",
               Rows("revenue", StartDate(start_date, RevenueLookback), None),
               outcome)

execute_product_query(start_date, category, outcome) ==
  ProviderCall("products",
               Rows("products", StartDate(start_date, ProductLookback),
                    IF Truthy(category) THEN category ELSE None),
               outcome)

execute_customer_query(start_date, min_amount, outcome) ==
  ProviderCall("customers",
               Rows("customers", StartDate(start_date, CustomerLookback),
                    IF Truthy(min_amount) THEN min_amount ELSE None),
               outcome)

(***************************************************************************)
(* analyze_business_request: keyword rules, queries, default overview      *)
(***************************************************************************)
NoData == [revenue |-> Absent, products |-> Absent, customers |-> Absent]

\* the two literals looked up in the opposite order
MinAmount_500First(text, prompt_lower) ==
  IF Contains(<<"$">>, text) \/ Contains(<<"o", "v", "e", "r">>, prompt_lower)
    THEN IF Contains(<<"5", "0", "0">>, text) THEN Num(500)
         ELSE IF Contains(<<"2", "0", "0">>, text) THEN Num(200)
         ELSE None
    ELSE None

\* the amount filter looked up in the raw prompt
MinAmount(text, prompt_lower) ==
  IF Contains(<<"$">>, text) \/ Contains(<<"o", "v", "e", "r">>, prompt_lower)
    THEN IF Contains(<<"2", "0", "0">>, text) THEN Num(200)
         ELSE IF Contains(<<"5", "0", "0">>, text) THEN Num(500)
         ELSE None
    ELSE None

\* a failed query is skipped and the analysis goes on with the rest
RunQuery_SkipFailed(st, key, label, q) ==
  IF q.exc
    THEN [st EXCEPT !.calls = Append(@, q.call)]
    ELSE [st EXCEPT !.data = [@ EXCEPT ![key] = q.val],
                    !.queries_executed = Append(@, label),
                    !.calls = Append(@, q.call)]

\* a failed provider call is made a second time
RunQuery_Retry(st, key, label, q) ==
  IF q.exc
    THEN [st EXCEPT !.exc = TRUE, !.msg = q.msg,
                    !.calls = Append(Append(@, q.call), q.call)]
    ELSE [st EXCEPT !.data = [@ EXCEPT ![key] = q.val],
                    !.queries_executed = Append(@, label),
                    !.calls = Append(@, q.call)]

\* one `results[...] = execute_..._query(...)` statement followed by the
\* append to queries_executed; st carries the locals and a raised exception
RunQuery(st, key, label, q) ==
  IF q.exc
    THEN [st EXCEPT !.exc = TRUE, !.msg = q.msg, !.calls = Append(@, q.call)]
    ELSE [st EXCEPT !.data = [@ EXCEPT ![key] = q.val],
                    !.queries_executed = Append(@, label),
                    !.calls = Append(@, q.call)]

\* `if any(word in prompt_lower for word in [...])` of the revenue rule
RevenueRule(st, prompt_lower, e) ==
  IF st.exc \/ ~AnyWord(RevenueWords, prompt_lower) THEN st
  ELSE RunQuery(st, "revenue", "revenue_summary",
         execute_revenue_query(None, ProviderOutcome(Len(st.calls) + 1, e)))

\* the product rule runs although an earlier provider call failed
ProductRule_RunsAfterFailure(st, prompt_lower, e) ==
  IF ~AnyWord(ProductWords, prompt_lower) THEN st
  ELSE RunQuery(st, "products", "product_sales",
         execute_product_query(None, None, ProviderOutcome(Len(st.calls) + 1, e)))

\* the product rule; not reached when an earlier query raised
ProductRule(st, prompt_lower, e) ==
  IF st.exc \/ ~AnyWord(ProductWords, prompt_lower) THEN st
  ELSE RunQuery(st, "products", "product_sales",
         execute_product_query(None, None,
                               ProviderOutcome(Len(st.calls) + 1, e)))

\* the customer rule with its amount filter
CustomerRule(st, text, prompt_lower, e) ==
  IF st.exc \/ ~AnyWord(CustomerWords, prompt_lower) THEN st
  ELSE RunQuery(st, "customers", "customer_orders",
         execute_customer_query(None, MinAmount(text, prompt_lower),
                                ProviderOutcome(Len(st.calls) + 1, e)))

\* the general overview: revenue first
OverviewRevenue(st, q) ==
  IF q.exc
    THEN [st EXCEPT !.exc = TRUE, !.msg = q.msg, !.calls = Append(@, q.call)]
    ELSE [st EXCEPT !.data = [@ EXCEPT !.revenue = q.val],
                    !.calls = Append(@, q.call)]

\* the overview fills data but leaves queries_executed as it was
OverviewProducts_NoLabels(st, q) ==
  IF q.exc
    THEN [st EXCEPT !.exc = TRUE, !.msg = q.msg, !.calls = Append(@, q.call)]
    ELSE [st EXCEPT !.data = [@ EXCEPT !.products = q.val],
                    !.calls = Append(@, q.call)]

\* the general overview: products, then queries_executed is assigned
OverviewProducts(st, q) ==
  IF q.exc
    THEN [st EXCEPT !.exc = TRUE, !.msg = q.msg, !.calls = Append(@, q.call)]
    ELSE [st EXCEPT !.data = [@ EXCEPT !.products = q.val],
                    !.calls = Append(@, q.call),
                    !.queries_executed = <<"revenue_summary", "product_sales">>]

OverviewSecond(st, e) ==
  IF st.exc THEN st
  ELSE OverviewProducts(st,
         execute_product_query(None, None,
                               ProviderOutcome(Len(st.calls) + 1, e)))

\* the overview runs whatever the rules selected
RunOverview_Unguarded(st, e) ==
  IF st.exc THEN st
  ELSE OverviewSecond(
         OverviewRevenue(st,
           execute_revenue_query(None, ProviderOutcome(Len(st.calls) + 1, e))),
         e)

\* `if not results['queries_executed']`
RunOverview(st, e) ==
  IF st.exc \/ st.queries_executed # <<>> THEN st
  ELSE OverviewSecond(
         OverviewRevenue(st,
           execute_revenue_query(None, ProviderOutcome(Len(st.calls) + 1, e))),
         e)

AnalysisStart ==
  [queries_executed |-> <<>>, data |-> NoData, exc |-> FALSE, msg |-> <<>>,
   calls |-> <<>>]

\* the results dict that is returned, or the exception that was raised
AnalysisResult(st, prompt) ==
  [exc |-> st.exc,
   val |-> IF st.exc THEN None
           ELSE [request |-> prompt,
                 queries_executed |-> st.queries_executed,
                 data |-> st.data],
   msg |-> st.msg,
   calls |-> st.calls]

AnalyzeText(text, prompt_lower, e) ==
  RunOverview(
    CustomerRule(
      ProductRule(RevenueRule(AnalysisStart, prompt_lower, e), prompt_lower, e),
      text, prompt_lower, e),
    e)

\* Returns [exc, val, msg, calls]: val is the results dict
\* {request, queries_executed, data}; calls are the provider calls made.
analyze_business_request(prompt, e) ==
  IF prompt.kind # "str"
    THEN [exc |-> TRUE, val |-> None,
          msg |-> <<"object has no attribute 'lower'">>, calls |-> <<>>]
    ELSE AnalysisResult(AnalyzeText(prompt.s, Lower(prompt.s), e), prompt)

(***************************************************************************)
(* Inputs of the query analysis                                            *)
(***************************************************************************)
Fragments ==
  { <<"S", "a", "l", "e", "s">>,
    <<"i", "t", "e", "m">>,
    <<"s">>,
    <<"V", "I", "P", "$">>,
    <<"o", "r", "d", "e", "r">>,
    <<"O", "v", "e", "r">>,
    <<"2", "0", "0">>,
    <<"5", "0", "0">>,
    <<"h", "i">> }

RECURSIVE Concat(_)
Concat(fs) == IF fs = <<>> THEN <<>> ELSE Head(fs) \o Concat(Tail(fs))

Texts ==
  UNION { { Concat(fs) : fs \in [1..n -> Fragments] } : n \in 0..MaxFrags }

ProviderEnvs ==
  { [failAt |-> 0, failKind |-> "ok", narr |-> "ok", weather |-> "ok"] } \cup
  [failAt : 1..3, failKind : {"connect", "query"}, narr : {"ok"}, weather : {"ok"}]

NoEvent == None
NoEnv == [failAt |-> 0, failKind |-> "ok", narr |-> "ok", weather |-> "ok"]
NoOut == [kind |-> "none"]
NoResults == [exc |-> FALSE, val |-> None, msg |-> <<>>, calls |-> <<>>]
\* what a server process has answered so far: the number of requests, the
\* catalogues and initialize payloads it returned, the params initialize
\* was sent, and whether a tool call failed
NoSession ==
  [handled |-> 0, listed |-> {}, inited |-> {}, params |-> {}, failed |-> FALSE]

(***************************************************************************)
(* Specification of the query analysis on its own                          *)
(***************************************************************************)
InitAnalyze ==
  /\ phase = "prompt"
  /\ server = "analysis"
  /\ event = NoEvent
  /\ out = NoOut
  /\ user_prompt \in { Str(t) : t \in Texts }
  /\ env \in ProviderEnvs
  /\ results = NoResults
  /\ session = NoSession

Analyze ==
  /\ phase = "prompt"
  /\ results' = analyze_business_request(user_prompt, env)
  /\ phase' = "analyzed"
  /\ UNCHANGED <<server, event, env, out, user_prompt, session>>

NextAnalyze == Analyze

SpecAnalyze == InitAnalyze /\ [][NextAnalyze]_vars

(***************************************************************************)
(* Text produced by the tools                                              *)
(***************************************************************************)
\* the serialized rows of one provider output, as one piece of text
RowsText(fn) ==
  CASE fn = "revenue" -> "<revenue rows>"
    [] fn = "products" -> "<products rows>"
    [] OTHER -> "<customers rows>"

\* json.dumps(data, indent=2, default=str) of one provider output
DumpRows(data) == <<"{", RowsText(data.rows), "}">>

\* the "data" member of the results dict, keys in insertion order
DumpData(data) ==
  (IF data.revenue.kind = "absent" THEN <<>>
   ELSE <<"revenue: ">> \o DumpRows(data.revenue)) \o
  (IF data.products.kind = "absent" THEN <<>>
   ELSE <<"products: ">> \o DumpRows(data.products)) \o
  (IF data.customers.kind = "absent" THEN <<>>
   ELSE <<"customers: ">> \o DumpRows(data.customers))

\* json.dumps(query_results, indent=2, default=str)
DumpResults(r) ==
  <<"{request: ">> \o r.request.s \o <<", queries_executed: ">> \o
  r.queries_executed \o <<", data: {">> \o DumpData(r.data) \o <<"}}">>

NarrativeError(e) ==
  IF e.narr = "nokey"
    THEN "OpenAI API key not found. Set OPENAI_API_KEY or OPENAI_KEY environment variable."
    ELSE "upstream error"

\* the except branch reports the failure without the raw data
generate_business_insights_NoRawData(query_results, prompt, e) ==
  IF e.narr = "ok"
    THEN <<"<analysis>">>
    ELSE <<"Data retrieved successfully, but analysis failed: ",
           NarrativeError(e), "\n\nRaw data: ">>

\* Returns the insights text; every failure ends in the except branch.
generate_business_insights(query_results, prompt, e) ==
  IF e.narr = "ok"
    THEN <<"<analysis>">>
    ELSE <<"Data retrieved successfully, but analysis failed: ",
           NarrativeError(e), "\n\nRaw data: ">> \o DumpResults(query_results)

NarrativeCall(e) == [fn |-> "narrative", conn |-> <<e.narr>>]

(***************************************************************************)
(* Business-data server (lambda/query/mcp_handler.py)                      *)
(***************************************************************************)
OkC(v, calls) == [exc |-> FALSE, val |-> v, msg |-> <<>>, calls |-> calls]
RaiseC(m, calls) == [exc |-> TRUE, val |-> None, msg |-> m, calls |-> calls]

PyTrue == [kind |-> "bool", b |-> TRUE]
ContentBlock(text) == [type |-> "text", text |-> text]
ToolResult(text) ==
  [kind |-> "toolresult", content |-> <<ContentBlock(text)>>, isError |-> Absent]
ToolError(text) ==
  [kind |-> "toolresult", content |-> <<ContentBlock(text)>>, isError |-> PyTrue]

ErrorCode == -32603
StatusOK == 200
StatusError == 500

ProtocolVersion == "2024-11-05"

Q_define_tools ==
  << [name |-> "query_business_data", properties |-> {"query"},
      required |-> {"query"}],
     [name |-> "get_revenue_summary", properties |-> {"start_date"},
      required |-> {}],
     [name |-> "get_product_performance",
      properties |-> {"start_date", "category"}, required |-> {}],
     [name |-> "get_customer_orders",
      properties |-> {"start_date", "min_amount"}, required |-> {}] >>

\* the payload takes its protocol version from the params sent
handle_initialize_EchoParams(params) ==
  [kind |-> "initresult",
   protocolVersion |-> IF params.kind = "dict" THEN "requested" ELSE ProtocolVersion,
   capabilities |-> {"tools"},
   serverInfo |-> [name |-> "database-agent", version |-> "1.0.0"]]

handle_initialize(params) ==
  [kind |-> "initresult", protocolVersion |-> ProtocolVersion,
   capabilities |-> {"tools"},
   serverInfo |-> [name |-> "database-agent", version |-> "1.0.0"]]

\* only the first descriptor is listed
Q_handle_tools_list_FirstOnly ==
  [kind |-> "toolslist", tools |-> <<Q_define_tools[1]>>]

Q_handle_tools_list == [kind |-> "toolslist", tools |-> Q_define_tools]

\* analysis, then narration of its results
Narrate(r, prompt, e) ==
  IF r.exc THEN RaiseC(r.msg, r.calls)
  ELSE OkC(generate_business_insights(r.val, prompt, e),
           Append(r.calls, NarrativeCall(e)))

NarratedQuery(q, e) ==
  IF q.exc THEN RaiseC(q.msg, <<>>)
  ELSE Narrate(analyze_business_request(q.val, e), q.val, e)

\* json.dumps of what a provider entry point returned
DirectResult(q) ==
  IF q.exc THEN RaiseC(q.msg, <<q.call>>)
  ELSE OkC(DumpRows(q.val), <<q.call>>)

RevenueTool(sd, e) ==
  IF sd.exc THEN RaiseC(sd.msg, <<>>)
  ELSE DirectResult(execute_revenue_query(sd.val, ProviderOutcome(1, e)))

ProductTool(sd, cat, e) ==
  IF sd.exc THEN RaiseC(sd.msg, <<>>)
  ELSE DirectResult(execute_product_query(sd.val, cat.val,
                                          ProviderOutcome(1, e)))

CustomerTool(sd, amt, e) ==
  IF sd.exc THEN RaiseC(sd.msg, <<>>)
  ELSE DirectResult(execute_customer_query(sd.val, amt.val,
                                           ProviderOutcome(1, e)))

\* the tool flows inside the try block: the text of the content block, or
\* the exception raised
Q_ToolBody(tool_name, arguments, e) ==
  CASE tool_name = Str(<<"query_business_data">>) ->
         NarratedQuery(Get(arguments, "query", Str(DefaultPrompt)), e)
    [] tool_name = Str(<<"get_revenue_summary">>) ->
         RevenueTool(Get(arguments, "start_date", None), e)
    [] tool_name = Str(<<"get_product_performance">>) ->
         ProductTool(Get(arguments, "start_date", None),
                     Get(arguments, "category", None), e)
    [] tool_name = Str(<<"get_customer_orders">>) ->
         CustomerTool(Get(arguments, "start_date", None),
                      Get(arguments, "min_amount", None), e)
    [] OTHER -> RaiseC(<<"Unknown tool: ">> \o PyStr(tool_name), <<>>)

\* the except branch turns what the tool raised into an isError block
ToolOutcome(tool_name, t) ==
  IF t.exc
    THEN OkC(ToolError(<<"Error executing ">> \o PyStr(tool_name) \o
                       <<": ">> \o t.msg), t.calls)
    ELSE OkC(ToolResult(t.val), t.calls)

\* the two params.get calls run before the try block
CallTool(n, a, e) ==
  IF n.exc THEN RaiseC(n.msg, <<>>)
  ELSE ToolOutcome(n.val, Q_ToolBody(n.val, a.val, e))

Q_handle_tools_call(params, e) ==
  CallTool(Get(params, "name", None), Get(params, "arguments", EmptyDict), e)

\* the error member is always written, empty on success
Response_WithError(result, id) ==
  [kind |-> "response", jsonrpc |-> "2.0", result |-> result,
   error |-> [kind |-> "error", code |-> 0, message |-> <<>>], id |-> id]

Response(result, id) ==
  [kind |-> "response", jsonrpc |-> "2.0", result |-> result,
   error |-> Absent, id |-> id]
\* the error response leaves the request id out
ErrorResponse_NullId(message, id) ==
  [kind |-> "response", jsonrpc |-> "2.0", result |-> Absent,
   error |-> [kind |-> "error", code |-> -32603, message |-> message],
   id |-> None]

ErrorResponse(message, id) ==
  [kind |-> "response", jsonrpc |-> "2.0", result |-> Absent,
   error |-> [kind |-> "error", code |-> ErrorCode, message |-> message],
   id |-> id]

\* the return after the try block, or the except branch
Respond(r, request_id) ==
  IF r.exc
    THEN OkC(ErrorResponse(r.msg, request_id), r.calls)
    ELSE OkC(Response(r.val, request_id), r.calls)

Q_Route(method, params, e) ==
  CASE method = Str(<<"initialize">>) -> OkC(handle_initialize(params), <<>>)
    [] method = Str(<<"tools/list">>) -> OkC(Q_handle_tools_list, <<>>)
    [] method = Str(<<"tools/call">>) -> Q_handle_tools_call(params, e)
    [] OTHER -> RaiseC(<<"Unknown method: ">> \o PyStr(method), <<>>)

\* the three request.get calls run before the try block
Q_Dispatch(m, p, i, e) ==
  IF m.exc THEN RaiseC(m.msg, <<>>)
  ELSE Respond(Q_Route(m.val, p.val, e), i.val)

Q_process_request(request, e) ==
  Q_Dispatch(Get(request, "method", None), Get(request, "params", EmptyDict),
             Get(request, "id", None), e)

(***************************************************************************)
(* Entry points                                                            *)
(***************************************************************************)
\* a str holding a JSON document, and one that does not parse
JsonText(v) == [kind |-> "str", s |-> <<"<json>">>, doc |-> v]
BadText == [kind |-> "str", s |-> <<"{oops">>, doc |-> Absent]

json_dumps(v) == JsonText(v)
json_loads(t) ==
  IF "doc" \in DOMAIN t /\ t.doc.kind # "absent"
    THEN Ok(t.doc)
    ELSE Raise(<<"Expecting value: line 1 column 1 (char 0)">>)

\* `key in v`
PyIn(key, v) ==
  CASE v.kind = "dict" -> Ok(v.d[key].kind # "absent")
    [] v.kind = "list" -> Ok(\E i \in 1..Len(v.xs) : v.xs[i] = Str(<<key>>))
    [] v.kind = "str" -> Ok(\E i \in 1..Len(v.s) : v.s[i] = key)
    [] OTHER -> Raise(<<"argument is not iterable">>)

Envelope(status, body) ==
  [kind |-> "envelope", statusCode |-> status, body |-> body]

Returned(v, calls) == [kind |-> "return", value |-> v, calls |-> calls]
Escaped(m, calls) == [kind |-> "raise", value |-> Str(m), calls |-> calls]

LegacyError(m, calls) ==
  Returned(Envelope(StatusError,
             json_dumps([kind |-> "legacyerror", error |-> m])), calls)

LegacyInsights(r, prompt, e) ==
  IF r.exc THEN LegacyError(r.msg, r.calls)
  ELSE Returned(Envelope(StatusOK,
                  json_dumps([kind |-> "legacy",
                    response |-> generate_business_insights(r.val, prompt, e),
                    queries_executed |-> r.val.queries_executed])),
                Append(r.calls, NarrativeCall(e)))

LegacyPrompt(p, e) ==
  IF p.exc THEN LegacyError(p.msg, <<>>)
  ELSE LegacyInsights(analyze_business_request(p.val, e), p.val, e)

\* the legacy entry point: its own try block turns every failure into 500
agentic_handler(ev, e) == LegacyPrompt(Get(ev, "prompt", Str(DefaultPrompt)), e)

\* the except branch of the entry point
HandlerError(m, calls) ==
  Returned(Envelope(StatusOK,
             json_dumps(ErrorResponse(<<"Internal error: ">> \o m, None))),
           calls)

Q_Reply(r) ==
  IF r.exc THEN HandlerError(r.msg, r.calls)
  ELSE Returned(Envelope(StatusOK, json_dumps(r.val)), r.calls)

\* `if "jsonrpc" in body`
Q_Marked(marked, body, ev, e) ==
  IF marked.exc THEN HandlerError(marked.msg, <<>>)
  ELSE IF marked.val THEN Q_Reply(Q_process_request(body, e))
  ELSE agentic_handler(ev, e)

Q_Parsed(parsed, ev, e) ==
  IF parsed.exc THEN HandlerError(parsed.msg, <<>>)
  ELSE Q_Marked(PyIn("jsonrpc", parsed.val), parsed.val, ev, e)

\* `if isinstance(event.get("body"), str)`
ParseBody(b, ev) ==
  IF b.val.kind = "str" THEN json_loads(b.val) ELSE Ok(ev)

Q_Body(b, ev, e) ==
  IF b.exc THEN HandlerError(b.msg, <<>>)
  ELSE Q_Parsed(ParseBody(b, ev), ev, e)

Q_handler(ev, e) == Q_Body(Get(ev, "body", None), ev, e)

(***************************************************************************)
(* Weather server (lambda/weather/mcp_handler.py)                          *)
(***************************************************************************)
W_define_tools ==
  << [name |-> "get_weather_forecast", properties |-> {"location"},
      required |-> {"location"}] >>

\* v[k]
Subscript(v, k) ==
  CASE v.kind = "dict" ->
         IF v.d[k].kind = "absent" THEN Raise(<<"'", k, "'">>) ELSE Ok(v.d[k])
    [] v.kind \in {"list", "str"} -> Raise(<<"indices must be integers">>)
    [] OTHER -> Raise(<<"object is not subscriptable">>)

\* the weather agent: forecast text for the prompt, or a failure
weather_agent(prompt, e) ==
  IF e.weather = "ok"
    THEN Ok(Str(<<"<forecast>">>))
    ELSE Raise(<<"weather agent error">>)

WeatherCall == [fn |-> "weather", conn |-> <<>>]

Forecast(w) ==
  IF w.exc THEN RaiseC(w.msg, <<WeatherCall>>)
  ELSE OkC([kind |-> "weatherresult", response |-> w.val], <<WeatherCall>>)

Location(l, e) ==
  IF l.exc THEN RaiseC(l.msg, <<>>)
  ELSE Forecast(weather_agent(<<"Get weather forecast for ">> \o PyStr(l.val), e))

WeatherArguments(a, e) ==
  IF a.exc THEN RaiseC(a.msg, <<>>)
  ELSE Location(Subscript(a.val, "location"), e)

W_handle_weather_request(request, e) ==
  WeatherArguments(Subscript(request, "arguments"), e)

\* no try block: whatever is raised here leaves the method
W_Named(n, request, e) ==
  IF n.exc THEN RaiseC(n.msg, <<>>)
  ELSE IF n.val = Str(<<"get_weather_forecast">>)
    THEN W_handle_weather_request(request, e)
    ELSE RaiseC(<<"Unknown tool: ">> \o PyStr(n.val), <<>>)

W_handle_request(request, e) == W_Named(Get(request, "name", None), request, e)

W_handle_tool_list == [kind |-> "toolslist", tools |-> W_define_tools]

W_Route(method, params, e) ==
  CASE method = Str(<<"initialize">>) -> OkC(handle_initialize(params), <<>>)
    [] method = Str(<<"tools/list">>) -> OkC(W_handle_tool_list, <<>>)
    [] method = Str(<<"tools/call">>) -> W_handle_request(params, e)
    [] OTHER -> RaiseC(<<"Unknown method: ">> \o PyStr(method), <<>>)

W_Dispatch(m, p, i, e) ==
  IF m.exc THEN RaiseC(m.msg, <<>>)
  ELSE Respond(W_Route(m.val, p.val, e), i.val)

W_process_request(request, e) ==
  W_Dispatch(Get(request, "method", None), Get(request, "params", EmptyDict),
             Get(request, "id", None), e)

W_Reply(r) ==
  IF r.exc THEN Escaped(r.msg, r.calls) ELSE Returned(r.val, r.calls)

W_Parsed(parsed, e) ==
  IF parsed.exc THEN Escaped(parsed.msg, <<>>)
  ELSE W_Reply(W_process_request(parsed.val, e))

W_Body(b, ev, e) ==
  IF b.exc THEN Escaped(b.msg, <<>>)
  ELSE W_Parsed(ParseBody(b, ev), e)

\* no try block and no envelope: the response dict is returned as it is
W_handler(ev, e) == W_Body(Get(ev, "body", None), ev, e)

(***************************************************************************)
(* Inbound events                                                          *)
(***************************************************************************)
Ids == {Absent, None, Num(0), Str(<<"abc">>)}

OtherMethods == {Absent, Str(<<"initialize">>), Str(<<"tools/list">>),
                 Str(<<"resources/list">>)}

QueryToolNames == {"query_business_data", "get_revenue_summary",
                   "get_product_performance", "get_customer_orders"}
WeatherToolNames == {"get_weather_forecast"}

ToolNames ==
  {Absent} \cup { Str(<<n>>) : n \in QueryToolNames \cup WeatherToolNames \cup {"nope"} }

\* prompts sent through the protocol: no keyword, one category, all three
ProtocolTexts ==
  { <<"h", "i">>,
    <<"o", "r", "d", "e", "r">>,
    <<"S", "a", "l", "e", "s", " ", "i", "t", "e", "m", "s", " ",
      "V", "I", "P", "$", "5", "0", "0">> }

Arguments ==
  {Absent, None, List(<<>>), EmptyDict,
   Dict([query |-> Num(7)]),
   Dict([location |-> Str(<<"Paris">>)]),
   Dict([start_date |-> Str(<<"2024-01-01">>), min_amount |-> Num(0)]),
   Dict([category |-> Str(<<"toys">>), min_amount |-> Num(200)])} \cup
  { Dict([query |-> Str(t)]) : t \in ProtocolTexts }

CallParams ==
  {Absent, None, List(<<>>)} \cup
  { Dict([name |-> n, arguments |-> a]) : n \in ToolNames, a \in Arguments }

Requests ==
  { Dict([jsonrpc |-> Str(<<"2.0">>), method |-> m, params |-> p, id |-> i]) :
      m \in OtherMethods, p \in {Absent, EmptyDict, List(<<>>)}, i \in Ids } \cup
  { Dict([jsonrpc |-> Str(<<"2.0">>), method |-> Str(<<"tools/call">>),
          params |-> p, id |-> i]) : p \in CallParams, i \in Ids }

\* bodies that are not a request mapping, and events of the legacy interface
OtherEvents ==
  { Dict([body |-> BadText]),
    Dict([body |-> JsonText(List(<<Str(<<"jsonrpc">>)>>))]),
    Dict([body |-> JsonText(Str(<<"jsonrpc">>))]),
    Dict([body |-> JsonText(Num(1))]),
    Dict([body |-> JsonText(EmptyDict)]),
    Dict([prompt |-> Num(1)]),
    EmptyDict } \cup
  { Dict([prompt |-> Str(t)]) : t \in ProtocolTexts }

\* requests arrive as the event itself or as its JSON body
Events ==
  { r \in Requests : r.d.method # Str(<<"tools/call">>) } \cup
  { Dict([body |-> JsonText(r)]) : r \in Requests } \cup OtherEvents

\* outcomes of the data provider and of the narrative generator
QueryEnvs ==
  { [failAt |-> 0, failKind |-> "ok", narr |-> n, weather |-> "ok"] :
      n \in {"ok", "nokey", "upstream"} } \cup
  [failAt : 1..3, failKind : {"connect", "query"},
   narr : {"ok", "nokey", "upstream"}, weather : {"ok"}]

\* outcomes of the weather agent
WeatherEnvs ==
  { [failAt |-> 0, failKind |-> "ok", narr |-> "ok", weather |-> w] :
      w \in {"ok", "fail"} }

(***************************************************************************)
(* Specification of the two servers                                        *)
(***************************************************************************)
Init ==
  /\ phase = "idle"
  /\ server = "none"
  /\ event = NoEvent
  /\ env = NoEnv
  /\ out = NoOut
  /\ user_prompt = None
  /\ results = NoResults
  /\ session = NoSession

\* one invocation of the business-data entry point
QueryHandler ==
  /\ phase = "idle"
  /\ \E ev \in Events, e \in QueryEnvs :
       /\ event' = ev
       /\ env' = e
       /\ out' = Q_handler(ev, e)
  /\ server' = "query"
  /\ phase' = "responded"
  /\ UNCHANGED <<user_prompt, results, session>>

\* one invocation of the weather entry point
WeatherHandler ==
  /\ phase = "idle"
  /\ \E ev \in Events, e \in WeatherEnvs :
       /\ event' = ev
       /\ env' = e
       /\ out' = W_handler(ev, e)
  /\ server' = "weather"
  /\ phase' = "responded"
  /\ UNCHANGED <<user_prompt, results, session>>

\* the invocation is over; nothing of it is kept
Discard ==
  /\ phase = "responded"
  /\ phase' = "idle"
  /\ server' = "none"
  /\ event' = NoEvent
  /\ env' = NoEnv
  /\ out' = NoOut
  /\ UNCHANGED <<user_prompt, results, session>>

Next == QueryHandler \/ WeatherHandler \/ Discard

Spec == Init /\ [][Next]_vars

(***************************************************************************)
(* Specification of a server process answering several requests            *)
(***************************************************************************)
SessionCalls ==
  { List(<<>>),
    Dict([name |-> Str(<<"nope">>), arguments |-> EmptyDict]),
    Dict([name |-> Str(<<"query_business_data">>),
          arguments |-> Dict([query |-> Str(<<"h", "i">>)])]),
    Dict([name |-> Str(<<"get_weather_forecast">>),
          arguments |-> Dict([location |-> Str(<<"Paris">>)])]) }

InitializeParams == {Absent, EmptyDict, Dict([name |-> Str(<<"client">>)])}

SessionRequests ==
  { Dict([jsonrpc |-> Str(<<"2.0">>), method |-> Str(<<"initialize">>),
          params |-> p, id |-> Num(0)]) : p \in InitializeParams } \cup
  { Dict([jsonrpc |-> Str(<<"2.0">>), method |-> Str(<<"tools/list">>),
          id |-> Num(0)]) } \cup
  { Dict([jsonrpc |-> Str(<<"2.0">>), method |-> Str(<<"tools/call">>),
          params |-> p, id |-> Num(0)]) : p \in SessionCalls }

\* the collaborators all work, or the database and the weather agent fail
SessionEnvs ==
  { NoEnv,
    [failAt |-> 1, failKind |-> "connect", narr |-> "ok", weather |-> "fail"] }

\* the JSON-RPC response inside what an entry point returned
Reply(o) ==
  IF o.kind # "return" THEN Absent
  ELSE IF o.value.kind = "envelope" THEN o.value.body.doc
  ELSE o.value

ResultOf(r) == IF r.kind = "response" THEN r.result ELSE Absent

\* a tools/call answered by a protocol error or an isError block
ToolCallFailed(req, r) ==
  /\ req.d.method = Str(<<"tools/call">>)
  /\ \/ r.kind # "response"
     \/ r.error.kind # "absent"
     \/ r.result.kind = "toolresult" /\ r.result.isError = PyTrue

Answered(h, req, r) ==
  [handled |-> h.handled + 1,
   listed |-> IF req.d.method = Str(<<"tools/list">>)
                THEN h.listed \cup {ResultOf(r)} ELSE h.listed,
   inited |-> IF req.d.method = Str(<<"initialize">>)
                THEN h.inited \cup {ResultOf(r)} ELSE h.inited,
   params |-> IF req.d.method = Str(<<"initialize">>)
                THEN h.params \cup {req.d.params} ELSE h.params,
   failed |-> h.failed \/ ToolCallFailed(req, r)]

\* a process of one of the two servers starts
InitSession ==
  /\ phase = "listening"
  /\ server \in {"query", "weather"}
  /\ event = NoEvent
  /\ env = NoEnv
  /\ out = NoOut
  /\ user_prompt = None
  /\ results = NoResults
  /\ session = NoSession

\* the business-data process answers its next request
SessionQuery ==
  /\ server = "query"
  /\ session.handled < MaxRequests
  /\ \E req \in SessionRequests, e \in SessionEnvs :
       /\ event' = Dict([body |-> JsonText(req)])
       /\ env' = e
       /\ out' = Q_handler(Dict([body |-> JsonText(req)]), e)
       /\ session' = Answered(session, req, Reply(out'))
  /\ phase' = "responded"
  /\ UNCHANGED <<server, user_prompt, results>>

\* the weather process answers its next request
SessionWeather ==
  /\ server = "weather"
  /\ session.handled < MaxRequests
  /\ \E req \in SessionRequests, e \in SessionEnvs :
       /\ event' = Dict([body |-> JsonText(req)])
       /\ env' = e
       /\ out' = W_handler(Dict([body |-> JsonText(req)]), e)
       /\ session' = Answered(session, req, Reply(out'))
  /\ phase' = "responded"
  /\ UNCHANGED <<server, user_prompt, results>>

NextSession == SessionQuery \/ SessionWeather

SpecSession == InitSession /\ [][NextSession]_vars

(***************************************************************************)
(* Properties of the query analysis                                        *)
(***************************************************************************)
\* a occurs in a text where the lowercase keyword letter b is expected
SameLetter(a, b) == a = b \/ (a \in DOMAIN LowerTable /\ LowerTable[a] = b)

\* kw occurs in text when letter case is ignored
OccursNoCase(kw, text) ==
  \E i \in 1..Len(text) :
    /\ i + Len(kw) - 1 <= Len(text)
    /\ \A j \in 1..Len(kw) : SameLetter(text[i + j - 1], kw[j])

\* kw occurs in text literally
Occurs(kw, text) ==
  \E i \in 1..Len(text) :
    /\ i + Len(kw) - 1 <= Len(text)
    /\ \A j \in 1..Len(kw) : text[i + j - 1] = kw[j]

Categories == {"revenue", "product", "customer"}
KeywordSet(c) ==
  CASE c = "revenue" -> RevenueWords
    [] c = "product" -> ProductWords
    [] OTHER -> CustomerWords
LabelOf(c) ==
  CASE c = "revenue" -> "revenue_summary"
    [] c = "product" -> "product_sales"
    [] OTHER -> "customer_orders"
RuleRank(label) ==
  CASE label = "revenue_summary" -> 1
    [] label = "product_sales" -> 2
    [] OTHER -> 3

KeywordHit(c, text) == \E kw \in KeywordSet(c) : OccursNoCase(kw, text)
InOutput(c) ==
  \E i \in 1..Len(results.val.queries_executed) :
    results.val.queries_executed[i] = LabelOf(c)
InRuleOrder(labels) ==
  \A i, j \in 1..Len(labels) : i < j => RuleRank(labels[i]) < RuleRank(labels[j])

AnalysisDone == phase = "analyzed" /\ ~results.exc

\* C9 as stated: for every text a category is in the output exactly when
\* one of its keywords occurs in the text (case ignored), and the output is
\* in rule-table order without repetition.
C9_AsStated ==
  AnalysisDone =>
    /\ \A c \in Categories : InOutput(c) <=> KeywordHit(c, user_prompt.s)
    /\ InRuleOrder(results.val.queries_executed)

\* C9 amended: a category is in the output exactly when one of its keywords
\* occurs in the text (case ignored), or when no keyword of any category
\* occurs and the category is revenue or product; the output is in
\* rule-table order without repetition.
C9_Selection ==
  AnalysisDone =>
    /\ \A c \in Categories :
         InOutput(c) <=>
           \/ KeywordHit(c, user_prompt.s)
           \/ /\ \A d \in Categories : ~KeywordHit(d, user_prompt.s)
              /\ c \in {"revenue", "product"}
    /\ InRuleOrder(results.val.queries_executed)

\* a text naming customer (in upper case) before product (split over two
\* fragments) yields product before customer
C9_Witness ==
  /\ AnalysisDone
  /\ user_prompt.s = <<"V", "I", "P", "$", "i", "t", "e", "m", "s">>
  /\ results.val.queries_executed = <<"product_sales", "customer_orders">>

\* the minimum amount handed to the customer query, None when there is none
MinAmountOf(r) ==
  IF r.val.data.customers.kind = "absent" THEN None
  ELSE r.val.data.customers.filter

HasMarker(text) ==
  Occurs(<<"$">>, text) \/ OccursNoCase(<<"o", "v", "e", "r">>, text)

\* C10: minAmount is set only when customer is selected and the text has a
\* currency marker or "over"; then "200" wins over "500", "500" alone gives
\* 500 and neither leaves it unset.
C10_MinAmount ==
  AnalysisDone =>
    LET text == user_prompt.s
        m == MinAmountOf(results)
        has200 == Occurs(<<"2", "0", "0">>, text)
        has500 == Occurs(<<"5", "0", "0">>, text)
    IN /\ m # None => InOutput("customer") /\ HasMarker(text)
       /\ InOutput("customer") /\ HasMarker(text) =>
            /\ has200 => m = Num(200)
            /\ has500 /\ ~has200 => m = Num(500)
            /\ ~has200 /\ ~has500 => m = None

\* "500" precedes "200" in a qualifying customer text and 200 is chosen
C10_Witness ==
  /\ AnalysisDone
  /\ user_prompt.s = <<"V", "I", "P", "$", "5", "0", "0", "2", "0", "0">>
  /\ MinAmountOf(results) = Num(200)

(***************************************************************************)
(* Properties of the two servers                                           *)
(***************************************************************************)
Responded == phase = "responded"

\* the body the entry point hands on: the parsed body string, else the event
InboundBody ==
  IF event.d.body.kind = "str"
    THEN (IF "doc" \in DOMAIN event.d.body THEN event.d.body.doc ELSE Absent)
    ELSE event

\* the inbound body is a mapping that the server passes to its dispatcher
Dispatched ==
  /\ Responded
  /\ InboundBody.kind = "dict"
  /\ server = "query" => InboundBody.d.jsonrpc.kind # "absent"

ReqField(k) == InboundBody.d[k]
IsToolsCall == Dispatched /\ ReqField("method") = Str(<<"tools/call">>)
NamedCall == IsToolsCall /\ ReqField("params").kind = "dict"
CalledName == ReqField("params").d.name
CallArguments == ReqField("params").d.arguments

Registered ==
  IF server = "query"
    THEN { Str(<<Q_define_tools[i].name>>) : i \in 1..Len(Q_define_tools) }
    ELSE { Str(<<W_define_tools[i].name>>) : i \in 1..Len(W_define_tools) }

\* the JSON-RPC response the caller receives, Absent when there is none
RpcResponse ==
  IF out.kind # "return" THEN Absent
  ELSE IF out.value.kind = "envelope" THEN out.value.body.doc
  ELSE out.value

IsRpc == RpcResponse.kind = "response"
HasResult == IsRpc /\ RpcResponse.result.kind # "absent"
HasError == IsRpc /\ RpcResponse.error.kind # "absent"

\* the result is one text content block
IsContent(r) ==
  /\ r.kind = "toolresult"
  /\ Len(r.content) = 1
  /\ r.content[1].type = "text"
ResultText == RpcResponse.result.content[1].text

HasPiece(text, p) == \E i \in 1..Len(text) : text[i] = p
HasPrefix(text, pre) ==
  Len(text) >= Len(pre) /\ SubSeq(text, 1, Len(pre)) = pre
HasPhrase(text, ph) ==
  \E i \in 1..Len(text) :
    i + Len(ph) - 1 <= Len(text) /\ SubSeq(text, i, i + Len(ph) - 1) = ph

\* C1: a tools/call naming a registered tool resolves, for any arguments and
\* any outcome of the collaborators, to a content block inside a result;
\* nothing escapes and the response is not a protocol error.
C1_RegisteredToolContent ==
  (NamedCall /\ CalledName \in Registered) =>
    /\ out.kind = "return"
    /\ HasResult /\ ~HasError
    /\ IsContent(RpcResponse.result)

\* C2: a tools/call naming an unregistered or absent tool yields a result
\* whose content is flagged isError with the text "Unknown tool: <name>",
\* never a protocol error, on both servers.
C2_UnknownToolContent ==
  (NamedCall /\ CalledName \notin Registered) =>
    /\ out.kind = "return"
    /\ HasResult /\ ~HasError
    /\ IsContent(RpcResponse.result)
    /\ RpcResponse.result.isError = PyTrue
    /\ HasPhrase(ResultText,
                 <<"Unknown tool: ">> \o
                 PyStr(IF CalledName.kind = "absent" THEN None ELSE CalledName))

\* C3: every invocation of an entry point returns, with success status;
\* no exception escapes and no other status is used.
C3_TransportSuccess ==
  Responded =>
    /\ out.kind = "return"
    /\ out.value.kind = "envelope" => out.value.statusCode = StatusOK

IdSent == IF ReqField("id").kind = "absent" THEN None ELSE ReqField("id")

\* C4: the response carries the id of the request unchanged, null when the
\* request has none, in results and in errors; 0 and null stay distinct.
C4_IdEcho ==
  Dispatched => IsRpc /\ RpcResponse.id = IdSent

\* an error response to a request with id 0 carries id 0
C4_Witness ==
  /\ Dispatched
  /\ ReqField("id") = Num(0)
  /\ HasError
  /\ RpcResponse.id = Num(0)

RoutedMethods == { Str(<<"initialize">>), Str(<<"tools/list">>),
                   Str(<<"tools/call">>) }

\* C5: a method outside initialize, tools/list, tools/call (or no method)
\* yields a protocol error with code -32603 and the request's id, no result.
C5_UnknownMethod ==
  (Dispatched /\ ReqField("method") \notin RoutedMethods) =>
    /\ HasError /\ ~HasResult
    /\ RpcResponse.error.code = -32603
    /\ RpcResponse.id = IdSent

\* a request without a method and with id "abc" gets the error with id "abc"
C5_Witness ==
  /\ Dispatched
  /\ ReqField("method").kind = "absent"
  /\ ReqField("id") = Str(<<"abc">>)
  /\ HasError
  /\ RpcResponse.error.message = <<"Unknown method: ", "None">>

\* C6: a response of the dispatcher has exactly one of result and error,
\* and an id; an error has a code and a message.
C6_ResponseShape ==
  (Responded /\ IsRpc) =>
    /\ HasResult # HasError
    /\ RpcResponse.id.kind # "absent"
    /\ HasError =>
         /\ RpcResponse.error.code \in Int
         /\ Len(RpcResponse.error.message) > 0

\* the entry point's own error response to a body that does not parse
C6_Witness ==
  /\ Responded /\ server = "query"
  /\ event.d.body = BadText
  /\ HasError /\ ~HasResult
  /\ RpcResponse.id = None

\* the prompt of a narrated business query, the default when none is given
NarratedCall ==
  /\ server = "query"
  /\ NamedCall
  /\ CalledName = Str(<<"query_business_data">>)
  /\ CallArguments.kind \in {"absent", "dict"}
  /\ CallArguments.kind = "dict" => CallArguments.d.query.kind \in {"absent", "str"}
NarratedPrompt ==
  IF CallArguments.kind = "absent" THEN DefaultPrompt
  ELSE IF CallArguments.d.query.kind = "absent" THEN DefaultPrompt
  ELSE CallArguments.d.query.s

\* the categories a text asks for: those with a keyword, else the overview
Wanted(text) ==
  IF \A c \in Categories : ~KeywordHit(c, text)
    THEN {"revenue", "product"}
    ELSE { c \in Categories : KeywordHit(c, text) }
DataKey(c) ==
  CASE c = "revenue" -> "revenue"
    [] c = "product" -> "products"
    [] OTHER -> "customers"

ProviderFailed == env.failAt \in 1..Cardinality(Wanted(NarratedPrompt))

\* C7: a provider failure in an aggregation over several categories gives
\* one isError content block naming the tool and the failure, with no
\* output of a category anywhere in it.
C7_AbortedAggregation ==
  (NarratedCall /\ Cardinality(Wanted(NarratedPrompt)) > 1 /\ ProviderFailed) =>
    /\ HasResult /\ ~HasError
    /\ IsContent(RpcResponse.result)
    /\ RpcResponse.result.isError = PyTrue
    /\ HasPrefix(ResultText, <<"Error executing ", "query_business_data", ": ">>)
    /\ HasPiece(ResultText,
                IF env.failKind = "connect" THEN "connect error" ELSE "query error")
    /\ \A c \in Categories : ~HasPiece(ResultText, RowsText(DataKey(c)))

\* the second of three provider calls fails after the first succeeded
C7_Witness ==
  /\ NarratedCall
  /\ Cardinality(Wanted(NarratedPrompt)) = 3
  /\ env.failAt = 2
  /\ RpcResponse.result.isError = PyTrue
  /\ out.calls[1].conn = <<"open", "execute", "close">>

\* C8: when the narrative generator fails after the aggregation succeeded,
\* the call succeeds with a content block that is not flagged isError: a
\* notice followed by the raw result with the data of every category run.
C8_NarrativeDegradation ==
  (NarratedCall /\ ~ProviderFailed /\ env.narr # "ok") =>
    /\ out.kind = "return" /\ out.value.statusCode = StatusOK
    /\ HasResult /\ ~HasError
    /\ IsContent(RpcResponse.result)
    /\ RpcResponse.result.isError.kind = "absent"
    /\ HasPrefix(ResultText,
                 <<"Data retrieved successfully, but analysis failed: ",
                   NarrativeError(env), "\n\nRaw data: ">>)
    /\ \A c \in Categories :
         HasPiece(ResultText, RowsText(DataKey(c))) <=> c \in Wanted(NarratedPrompt)

\* the credential is missing after three categories were aggregated
C8_Witness ==
  /\ NarratedCall
  /\ Cardinality(Wanted(NarratedPrompt)) = 3
  /\ ~ProviderFailed
  /\ env.narr = "nokey"
  /\ RpcResponse.result.isError.kind = "absent"
  /\ HasPiece(ResultText, RowsText("customers"))

(***************************************************************************)
(* Properties of the default overview and of the results dict              *)
(***************************************************************************)
NoKeyword(text) == \A c \in Categories : ~KeywordHit(c, text)

\* the provider entry points called, in call order
CalledFns(calls) == [i \in 1..Len(calls) |-> calls[i].fn]

\* C11: a text without any keyword gets exactly revenue then product, with
\* no customer query and no minimum amount; a text with a keyword gets no
\* overview query.
C11_DefaultOverview ==
  AnalysisDone =>
    /\ NoKeyword(user_prompt.s) =>
         /\ results.val.queries_executed = <<"revenue_summary", "product_sales">>
         /\ CalledFns(results.calls) = <<"revenue", "products">>
         /\ results.val.data.customers.kind = "absent"
         /\ MinAmountOf(results) = None
    /\ ~NoKeyword(user_prompt.s) =>
         /\ Len(results.calls) =
              Cardinality({ c \in Categories : KeywordHit(c, user_prompt.s) })
         /\ \A c \in Categories : InOutput(c) => KeywordHit(c, user_prompt.s)

\* "hi" has no keyword and gets the overview
C11_Witness ==
  /\ AnalysisDone
  /\ user_prompt.s = <<"h", "i">>
  /\ results.val.queries_executed = <<"revenue_summary", "product_sales">>
  /\ results.val.data.revenue.kind = "rows"

\* the labels of the categories a text asks for, in rule-table order
ExpectedLabels(text) ==
  (IF "revenue" \in Wanted(text) THEN <<"revenue_summary">> ELSE <<>>) \o
  (IF "product" \in Wanted(text) THEN <<"product_sales">> ELSE <<>>) \o
  (IF "customer" \in Wanted(text) THEN <<"customer_orders">> ELSE <<>>)

\* C12: when the analysis completes, queries_executed is the category order
\* of the text, without repetition and not empty, and data holds the output
\* of exactly the providers of the executed categories.
C12_ExecutedAndData ==
  AnalysisDone =>
    LET qe == results.val.queries_executed
    IN /\ qe = ExpectedLabels(user_prompt.s)
       /\ qe # <<>>
       /\ \A i, j \in 1..Len(qe) : i # j => qe[i] # qe[j]
       /\ \A c \in Categories :
            /\ results.val.data[DataKey(c)].kind # "absent" <=> InOutput(c)
            /\ InOutput(c) => results.val.data[DataKey(c)].rows = DataKey(c)
       /\ Len(results.calls) = Len(qe)

\* two categories executed, two outputs held
C12_Witness ==
  /\ AnalysisDone
  /\ user_prompt.s = <<"o", "r", "d", "e", "r", "S", "a", "l", "e", "s">>
  /\ results.val.queries_executed = <<"revenue_summary", "customer_orders">>
  /\ results.val.data.products.kind = "absent"
  /\ results.val.data.customers.rows = "customers"

(***************************************************************************)
(* Properties of the calls one request makes                               *)
(***************************************************************************)
\* the connection events of a request, call after call
RECURSIVE ConnEvents(_)
ConnEvents(calls) ==
  IF calls = <<>> THEN <<>> ELSE Head(calls).conn \o ConnEvents(Tail(calls))

\* connections open after the first n events
OpenAfter(tr, n) ==
  Cardinality({ i \in 1..n : tr[i] = "open" }) -
  Cardinality({ i \in 1..n : tr[i] = "close" })

\* events before the k-th call begins
CallStart(calls, k) == Len(ConnEvents(SubSeq(calls, 1, k - 1)))

\* C15: within one request at most one connection is open at any point,
\* none is open when a provider call begins, whatever the exit path of the
\* call before it, and none is open when the request returns.
C15_ConnectionScope ==
  (Responded /\ server = "query") =>
    /\ \A n \in 0..Len(ConnEvents(out.calls)) :
         OpenAfter(ConnEvents(out.calls), n) \in {0, 1}
    /\ \A k \in 1..Len(out.calls) :
         OpenAfter(ConnEvents(out.calls), CallStart(out.calls, k)) = 0
    /\ OpenAfter(ConnEvents(out.calls), Len(ConnEvents(out.calls))) = 0

\* a second category whose query failed after its connection was opened
C15_Witness ==
  /\ NarratedCall
  /\ Len(out.calls) = 2
  /\ out.calls[1].conn = <<"open", "execute", "close">>
  /\ out.calls[2].conn = <<"open", "execute_failed", "close">>

Succeeded(call) == call.conn = <<"open", "execute", "close">>

\* C16: in the narrated flow the narrative generator is called only after
\* the provider call of every selected category succeeded; a failing
\* provider call is the last call of the request, with no narrative.
C16_NarrativeAfterProviders ==
  NarratedCall =>
    /\ \A i \in 1..Len(out.calls) :
         out.calls[i].fn = "narrative" =>
           /\ i = Cardinality(Wanted(NarratedPrompt)) + 1
           /\ \A j \in 1..(i - 1) :
                out.calls[j].fn # "narrative" /\ Succeeded(out.calls[j])
    /\ ProviderFailed =>
         /\ Len(out.calls) = env.failAt
         /\ ~Succeeded(out.calls[env.failAt])
         /\ \A i \in 1..Len(out.calls) : out.calls[i].fn # "narrative"

\* the first of three categories fails: one call, no narrative
C16_Witness ==
  /\ NarratedCall
  /\ Cardinality(Wanted(NarratedPrompt)) = 3
  /\ env.failAt = 1
  /\ Len(out.calls) = 1
  /\ out.calls[1].fn = "revenue"

Collaborators == {"revenue", "products", "customers", "narrative"}
TimesCalled(calls, f) == Cardinality({ i \in 1..Len(calls) : calls[i].fn = f })

\* C17: one tools/call of the query server calls each provider entry point
\* and the narrative generator at most once, on every path.
C17_SingleAttempt ==
  (server = "query" /\ IsToolsCall) =>
    \A f \in Collaborators : TimesCalled(out.calls, f) <= 1

\* the overview path with its second provider call failing
C17_Witness ==
  /\ NarratedCall
  /\ NarratedPrompt = <<"h", "i">>
  /\ env.failAt = 2
  /\ TimesCalled(out.calls, "revenue") = 1
  /\ TimesCalled(out.calls, "products") = 1
  /\ TimesCalled(out.calls, "narrative") = 0

(***************************************************************************)
(* Properties of the dispatcher boundary                                   *)
(***************************************************************************)
\* the entry point parsed a body and handed it to process_request
DispatcherReached ==
  /\ Responded
  /\ InboundBody.kind # "absent"
  /\ server = "query" =>
       /\ ~PyIn("jsonrpc", InboundBody).exc
       /\ PyIn("jsonrpc", InboundBody).val

\* the id that can be read from what was handed over
DerivableId == IF InboundBody.kind = "dict" THEN IdSent ELSE None

\* C18: whatever is handed to the dispatcher, a mapping or not, the caller
\* gets a response: a result, or the protocol error with code -32603 and
\* the id that could be read; nothing is raised out of the entry point.
C18_DispatcherCatchesAll ==
  DispatcherReached =>
    /\ out.kind = "return"
    /\ IsRpc
    /\ HasResult \/ HasError
    /\ HasError =>
         /\ RpcResponse.error.code = ErrorCode
         /\ RpcResponse.id = DerivableId

(***************************************************************************)
(* Properties of a server process over several requests                    *)
(***************************************************************************)
\* the registry of the server that is answering
Registry == IF server = "query" THEN Q_define_tools ELSE W_define_tools
RegisteredNames ==
  IF server = "query" THEN QueryToolNames ELSE WeatherToolNames

\* C13: every tools/list a process answers returns the registry verbatim,
\* the registered names and no others, and the same catalogue as every
\* tools/list before it, whatever was requested in between.
C13_StaticCatalogue ==
  /\ Cardinality(session.listed) <= 1
  /\ \A c \in session.listed :
       /\ c.kind = "toolslist"
       /\ c.tools = Registry
       /\ { c.tools[i].name : i \in 1..Len(c.tools) } = RegisteredNames

\* a tools/list answered after a failed tool call and an earlier tools/list
C13_Witness ==
  /\ server = "query"
  /\ session.handled = 3
  /\ session.failed
  /\ Cardinality(session.listed) = 1
  /\ Responded /\ ReqField("method") = Str(<<"tools/list">>)
  /\ HasResult

\* C14: every initialize a process answers returns the same payload,
\* whatever params it was sent and whatever was requested before.
C14_InitializePure ==
  /\ Cardinality(session.inited) <= 1
  /\ \A r \in session.inited : r = handle_initialize(None)

\* initialize answered with two different params, after a failed tool call
C14_Witness ==
  /\ session.handled = 3
  /\ session.failed
  /\ Cardinality(session.params) = 2
  /\ Cardinality(session.inited) = 1
  /\ Responded /\ ReqField("method") = Str(<<"initialize">>)
  /\ HasResult

====
